---- MODULE Spec2Model ----
(***************************************************************************)
(* Model of the Graphiti knowledge-graph core (src/core/graphiti.ts) on    *)
(* top of its Neo4j driver (src/drivers/neo4j.ts), its OpenAI-compatible   *)
(* language-model client (src/llm) and its embedder (src/embedder).        *)
(*                                                                         *)
(* Encodings.                                                              *)
(*  - Identifiers are integers: uuidv4() yields a fresh positive integer,  *)
(*    NoId (0) is the empty string '' that findNodeIdByName returns when   *)
(*    no node matches, and ExtractorIds are negative (values an extractor  *)
(*    may put under the key `id` of an entity's attributes; they can never *)
(*    equal a uuid that has not been generated yet).                       *)
(*  - Names are one-letter strings; toLowerCase is ToLower.                *)
(*  - Scores are integers in thousandths (1000 is 1.0); the factors 1.2   *)
(*    and 0.8 of combineSearchResults are 12 and 8 tenths.                 *)
(***************************************************************************)
EXTENDS Integers, Sequences, FiniteSets, TLC

----------------------------------------------------------------------------
(* Bounds of the model *)

MaxEpisodes == 2
MaxEntities == 2
MaxRelationships == 2
MaxIds == 4
MaxLimit == 2
MaxRowId == 2
MaxServed == 2
MaxRuns == 2

(* Program constants *)

NoId == 0
QueryScore == 1000
DefaultScore == 1000
VectorScore == 500
SemanticWeight == 12
KeywordWeight == 8

PlainNames == {"a", "b"}
AttributedNames == {"A"}
ExtractorIds == {-1}

\* the callers of the Graphiti instance whose invocations the model follows
Callers == {1}

VARIABLES
    nodes,      \* the Entity nodes persisted in the graph store
    edges,      \* the RELATIONSHIP edges persisted in the graph store
    nextId,     \* number of identifiers uuidv4() has handed out
    inv,        \* per caller: the addEpisodes invocation in flight
    ret,        \* what the last search or healthCheck call did and returned
    given       \* SpecSearch: the outcomes of the collaborator calls of one search

vars == <<nodes, edges, nextId, inv, ret, given>>

----------------------------------------------------------------------------
(* Helpers *)

BoundedSeq(S, n) == UNION {[1..m -> S] : m \in 0..n}

Min(a, b) == IF a < b THEN a ELSE b

\* String.prototype.toLowerCase on the names of the model
ToLower(s) ==
    CASE s = "A" -> "a"
      [] s = "B" -> "b"
      [] s = "Z" -> "z"
      [] OTHER -> s

----------------------------------------------------------------------------
(* The language-model client: what one chat round trip can yield *)

\* attributes is the list of values under the key `id` of entity.attributes
\* (empty when the extractor supplied no such key); the entity named in upper
\* case is the one that carries such a key
EntityRecords ==
    [name : PlainNames, attributes : {<<>>}]
        \cup [name : AttributedNames, attributes : [1..1 -> ExtractorIds]]

\* candidates between two entities (one end in the other case), with both
\* ends naming one entity (names equal ignoring case), and with a source or
\* a target that names no entity
RelationshipRecords ==
    {[source_entity |-> p[1], target_entity |-> p[2]] : p \in
        {<<"B", "a">>, <<"a", "A">>, <<"a", "z">>, <<"z", "b">>}}

\* a chat response whose content holds a JSON array, one without a parsable
\* array, and a failed request (transport error or non-OK status)
ChatOutcomes(Records, maxLen) ==
    {[kind |-> "ok", list |-> l] : l \in BoundedSeq(Records, maxLen)}
        \cup {[kind |-> "malformed", list |-> <<>>], [kind |-> "failed", list |-> <<>>]}

\* OpenAICompatibleClient.extractEntities: the parsed array, [] otherwise
extractEntities(response) ==
    IF response.kind = "ok" THEN response.list ELSE <<>>

\* OpenAICompatibleClient.extractRelationships: the parsed array, [] otherwise
extractRelationships(response) ==
    IF response.kind = "ok" THEN response.list ELSE <<>>

----------------------------------------------------------------------------
(* Graphiti.processEpisode: materialization, edge resolution, filter *)

\* uuidv4(): the i-th identifier drawn after `counter` were handed out
uuidv4(counter, i) == counter + i

\* entities.map(...) of processEpisode
MakeNodes(entities, counter) ==
    [i \in 1..Len(entities) |->
        [id |-> uuidv4(counter, i),
         name |-> entities[i].name,
         attributes |-> entities[i].attributes]]

findNodeIdByName_lastMatch(ns, name) ==
    LET hits == {i \in 1..Len(ns) : ToLower(ns[i].name) = ToLower(name)}
    IN  IF hits = {} THEN NoId
        ELSE ns[CHOOSE i \in hits : \A j \in hits : i >= j].id

\* nodes.find(n => n.name.toLowerCase() === name.toLowerCase()), then id or ''
findNodeIdByName(ns, name) ==
    LET hits == {i \in 1..Len(ns) : ToLower(ns[i].name) = ToLower(name)}
    IN  IF hits = {} THEN NoId
        ELSE ns[CHOOSE i \in hits : \A j \in hits : i <= j].id

\* relationships.map(...) of processEpisode
MakeEdges(relationships, ns, counter) ==
    [j \in 1..Len(relationships) |->
        [id |-> uuidv4(counter, j),
         source_id |-> findNodeIdByName(ns, relationships[j].source_entity),
         target_id |-> findNodeIdByName(ns, relationships[j].target_entity)]]

isValidEdge_noSelfLoopTest(edge) ==
    edge.source_id # NoId /\ edge.target_id # NoId

\* the predicate of edges.filter(...)
isValidEdge(edge) ==
    edge.source_id # NoId /\ edge.target_id # NoId /\ edge.source_id # edge.target_id

filterValidEdges_keepsAll(es) == es

filterValidEdges(es) == SelectSeq(es, isValidEdge)

----------------------------------------------------------------------------
(* Neo4jDriver: the effect of the two write queries on the store *)

\* CREATE (n:Entity {id: node.id, ...}) SET n += node.attributes :
\* the id property is the one of the attributes when they carry one
PersistedId(node) ==
    IF node.attributes = <<>> THEN node.id ELSE node.attributes[1]

addNodes_overwrites(storeNodes, batch) ==
    {[elem |-> batch[i].id, id |-> PersistedId(batch[i]), name |-> batch[i].name]
        : i \in DOMAIN batch}

\* UNWIND $nodes AS node CREATE ... : one new graph element per batch entry;
\* elem is the element's identity in the store (the synthesized id names it)
addNodes(storeNodes, batch) ==
    storeNodes \cup
        {[elem |-> batch[i].id, id |-> PersistedId(batch[i]), name |-> batch[i].name]
            : i \in DOMAIN batch}

\* UNWIND $edges AS edge MATCH (source {id}) MATCH (target {id}) CREATE ... :
\* one relationship per pair of matching elements, none when a MATCH is empty
addEdges(storeNodes, storeEdges, batch) ==
    storeEdges \cup
        {[id |-> batch[j].id, source |-> s.elem, target |-> t.elem]
            : <<j, s, t>> \in
                {<<j, s, t>> \in (DOMAIN batch) \X storeNodes \X storeNodes :
                    s.id = batch[j].source_id /\ t.id = batch[j].target_id}}

----------------------------------------------------------------------------
(* Neo4jDriver: the read queries *)

\* n.name CONTAINS $query, on the one-letter names of the model
Contains(name, query) == query = "" \/ query = name

\* MATCH (n:Entity) WHERE n.name CONTAINS $query RETURN n, 1.0 as score
\* LIMIT $limit : the record lists the store may answer with, each record
\* holding the columns n and score
QueryRecords(storeNodes, query, limit) ==
    LET matching == {n \in storeNodes : Contains(n.name, query)}
        len == Min(limit, Cardinality(matching))
    IN  {[i \in 1..len |-> [n |-> f[i], score |-> QueryScore]] :
            f \in {g \in [1..len -> matching] :
                    \A i, j \in 1..len : i # j => g[i] # g[j]}}

Failed == [ok |-> FALSE, rows |-> <<>>]

\* Neo4jDriver.searchNodes: runQuery throws when the query fails; the mapping
\* reads record.node, a column the query does not return (it returns n), so
\* record.node.properties throws on the first record; both are rethrown
searchNodes(dbOk, records) ==
    IF dbOk /\ records = <<>> THEN [ok |-> TRUE, rows |-> <<>>] ELSE Failed

\* Neo4jDriver.vectorSearch: searchNodes('', limit), each node scored 0.5
vectorSearch(found) ==
    IF found.ok
    THEN [ok |-> TRUE,
          rows |-> [i \in 1..Len(found.rows) |->
                        [id |-> found.rows[i].id, score |-> VectorScore]]]
    ELSE Failed

\* the messages of the errors runQuery rethrows when a query fails
Causes == {"ServiceUnavailable", "SessionExpired"}

\* what the store answers to one query: "ok", or the error it fails with
Answers == {"ok"} \cup Causes

\* Neo4jDriver.searchByName without a type: the elements whose name CONTAINS
\* $name, each mapped by record.n.properties; a failed query is rethrown
searchByName(storeNodes, name, answer) ==
    IF answer = "ok"
    THEN [raised |-> FALSE, error |-> "",
          rows |-> {n \in storeNodes : Contains(n.name, name)}]
    ELSE [raised |-> TRUE, error |-> answer, rows |-> {}]

\* Neo4jDriver.getFacts without a fact type: the relationships between two
\* elements, filtered by source.name CONTAINS and target.name CONTAINS when
\* the name is given and not ''; a failed query is rethrown
databaseGetFacts(storeNodes, storeEdges, sourceName, targetName, answer) ==
    IF answer = "ok"
    THEN [raised |-> FALSE, error |-> "",
          rows |-> {e \in storeEdges :
                      \E src, tgt \in storeNodes :
                          /\ src.elem = e.source
                          /\ tgt.elem = e.target
                          /\ Contains(src.name, sourceName)
                          /\ Contains(tgt.name, targetName)}]
    ELSE [raised |-> TRUE, error |-> answer, rows |-> {}]

----------------------------------------------------------------------------
(* Graphiti.getEntities and Graphiti.getFacts *)

getEntities_swallows(found) ==
    IF found.raised THEN [raised |-> FALSE, error |-> "", rows |-> {}] ELSE found

\* Graphiti.getEntities: what searchByName returned, or its error rethrown
getEntities(found) == found

\* Graphiti.getFacts: what the driver's getFacts returned, or its error
\* rethrown
getFacts(found) == found

----------------------------------------------------------------------------
(* Graphiti.search *)

SearchTypes == {"semantic", "keyword", "hybrid", "bogus"}

\* Graphiti.keywordSearch: one result per node, score `node.score || 1.0`,
\* and [] when the lookup threw
keywordSearch(found) ==
    IF found.ok
    THEN [i \in 1..Len(found.rows) |->
            [id |-> found.rows[i].id,
             score |-> IF found.rows[i].score = 0 THEN DefaultScore
                       ELSE found.rows[i].score]]
    ELSE <<>>

semanticSearch_rethrows(g) ==
    IF g.embedding /\ g.vector.ok
    THEN [raised |-> FALSE,
          results |-> [i \in 1..Len(g.vector.rows) |->
                        [id |-> g.vector.rows[i].id, score |-> g.vector.rows[i].score]],
          calls |-> <<"generateEmbedding", "vectorSearch">>]
    ELSE [raised |-> TRUE, results |-> <<>>,
          calls |-> <<"generateEmbedding">>
                        \o (IF g.embedding THEN <<"vectorSearch">> ELSE <<>>)]

\* Graphiti.semanticSearch: the vector lookup's rows, or, when the embedding
\* call or the vector lookup threw, what keywordSearch returns
semanticSearch(g) ==
    IF g.embedding /\ g.vector.ok
    THEN [raised |-> FALSE,
          results |-> [i \in 1..Len(g.vector.rows) |->
                        [id |-> g.vector.rows[i].id, score |-> g.vector.rows[i].score]],
          calls |-> <<"generateEmbedding", "vectorSearch">>]
    ELSE [raised |-> FALSE,
          results |-> keywordSearch(g.fallback),
          calls |-> <<"generateEmbedding">>
                        \o (IF g.embedding THEN <<"vectorSearch">> ELSE <<>>)
                        \o <<"searchNodes">>]

\* score * 1.2 and score * 0.8, the factor given in tenths
Scaled(score, tenths) == (score * tenths) \div 10

IndexOf(m, key) ==
    IF \E i \in 1..Len(m) : m[i].id = key
    THEN CHOOSE i \in 1..Len(m) : m[i].id = key
    ELSE 0

MapSet_appends(m, key, score) == Append(m, [id |-> key, score |-> score])

\* Map.set: a new key is appended, an old one keeps its place
MapSet(m, key, score) ==
    IF IndexOf(m, key) = 0
    THEN Append(m, [id |-> key, score |-> score])
    ELSE [m EXCEPT ![IndexOf(m, key)] = [id |-> key, score |-> score]]

RECURSIVE AddSemantic(_, _)
\* semanticResults.forEach(...) of combineSearchResults
AddSemantic(m, rs) ==
    IF rs = <<>> THEN m
    ELSE AddSemantic(
            IF Head(rs).id # NoId
            THEN MapSet(m, Head(rs).id, Scaled(Head(rs).score, SemanticWeight))
            ELSE m,
            Tail(rs))

RECURSIVE AddKeyword(_, _)
\* keywordResults.forEach(...) of combineSearchResults
AddKeyword(m, rs) ==
    IF rs = <<>> THEN m
    ELSE LET r == Head(rs)
             i == IndexOf(m, r.id)
         IN  AddKeyword(
                IF r.id = NoId THEN m
                ELSE IF i # 0
                     THEN [m EXCEPT ![i].score = @ + Scaled(r.score, KeywordWeight)]
                     ELSE MapSet(m, r.id, r.score),
                Tail(rs))

RECURSIVE SortByScore(_)
\* Array.prototype.sort((a, b) => b.score - a.score): stable, descending
SortByScore(rs) ==
    IF rs = <<>> THEN <<>>
    ELSE LET sorted == SortByScore(SubSeq(rs, 1, Len(rs) - 1))
             r == rs[Len(rs)]
             before == SelectSeq(sorted, LAMBDA x : x.score >= r.score)
             after == SelectSeq(sorted, LAMBDA x : x.score < r.score)
         IN  before \o <<r>> \o after

\* Array.prototype.slice(0, max), max >= 0
Slice(rs, max) == SubSeq(rs, 1, Min(max, Len(rs)))

combineSearchResults_noSlice(semanticResults, keywordResults, maxResults) ==
    SortByScore(AddKeyword(AddSemantic(<<>>, semanticResults), keywordResults))

\* Graphiti.combineSearchResults
combineSearchResults(semanticResults, keywordResults, maxResults) ==
    Slice(SortByScore(AddKeyword(AddSemantic(<<>>, semanticResults), keywordResults)),
          maxResults)

search_keywordUncaught(searchType, numResults, g) ==
    IF searchType \in {"keyword", "hybrid"} /\ ~g.keyword.ok
    THEN [raised |-> TRUE, results |-> <<>>, calls |-> <<"searchNodes">>]
    ELSE CASE searchType = "semantic" -> semanticSearch(g)
           [] searchType = "keyword" ->
                [raised |-> FALSE, results |-> keywordSearch(g.keyword),
                 calls |-> <<"searchNodes">>]
           [] searchType = "hybrid" ->
                [raised |-> FALSE,
                 results |-> combineSearchResults(
                               semanticSearch(g).results, keywordSearch(g.keyword),
                               numResults),
                 calls |-> semanticSearch(g).calls \o <<"searchNodes">>]
           [] OTHER -> [raised |-> TRUE, results |-> <<>>, calls |-> <<>>]

search_validatesLast(searchType, numResults, g) ==
    LET sem == semanticSearch(g)
    IN  [raised |-> searchType \notin {"semantic", "keyword", "hybrid"},
         results |-> <<>>,
         calls |-> sem.calls]

\* Graphiti.search: the switch over searchType
search(searchType, numResults, g) ==
    CASE searchType = "semantic" -> semanticSearch(g)
      [] searchType = "keyword" ->
            [raised |-> FALSE, results |-> keywordSearch(g.keyword),
             calls |-> <<"searchNodes">>]
      [] searchType = "hybrid" ->
            LET sem == semanticSearch(g)
            IN  IF sem.raised THEN sem
                ELSE [raised |-> FALSE,
                      results |-> combineSearchResults(
                                    sem.results, keywordSearch(g.keyword), numResults),
                      calls |-> sem.calls \o <<"searchNodes">>]
      [] OTHER -> [raised |-> TRUE, results |-> <<>>, calls |-> <<>>]

----------------------------------------------------------------------------
(* Graphiti.healthCheck and the probes it calls *)

\* Neo4jDriver.healthCheck: verifyConnectivity resolved, false when it threw
databaseHealthCheck(connected) == [raised |-> FALSE, value |-> connected]

\* the language-model probe: generateText('Hello', ...) then includes('OK')
LlmReplies == {"OK", "other", "throws"}

testConnection_rethrows(embedded) == [raised |-> ~embedded, value |-> embedded]

\* BigModelEmbedder.testConnection: generateEmbedding('test') resolved, false
\* when it threw
testConnection(embedded) == [raised |-> FALSE, value |-> embedded]

healthCheck_llmUncaught(db, reply, emb) ==
    IF db.raised \/ reply = "throws" \/ emb.raised
    THEN [raised |-> FALSE,
          health |-> [database |-> FALSE, llm |-> FALSE, embedding |-> FALSE],
          calls |-> <<"database">>
                        \o (IF db.raised THEN <<>> ELSE <<"llm">>)
                        \o (IF db.raised \/ reply = "throws" THEN <<>> ELSE <<"embedding">>)]
    ELSE [raised |-> FALSE,
          health |-> [database |-> db.value, llm |-> reply = "OK",
                      embedding |-> emb.value],
          calls |-> <<"database", "llm", "embedding">>]

\* Graphiti.healthCheck: the three probes in order, the inner try around the
\* language-model probe and the outer try around everything
healthCheck(db, reply, emb) ==
    IF db.raised \/ emb.raised
    THEN [raised |-> FALSE,
          health |-> [database |-> FALSE, llm |-> FALSE, embedding |-> FALSE],
          calls |-> <<"database">>
                        \o (IF db.raised THEN <<>> ELSE <<"llm", "embedding">>)]
    ELSE [raised |-> FALSE,
          health |-> [database |-> db.value, llm |-> reply = "OK",
                      embedding |-> emb.value],
          calls |-> <<"database", "llm", "embedding">>]

----------------------------------------------------------------------------
(* Initial state *)

NoHealth == [database |-> FALSE, llm |-> FALSE, embedding |-> FALSE]

NoCall ==
    [op |-> "none", searchType |-> "", numResults |-> 0,
     raised |-> FALSE, results |-> <<>>, calls |-> <<>>, health |-> NoHealth,
     probes |-> [connected |-> FALSE, reply |-> "", embedded |-> FALSE],
     answer |-> "", error |-> "", rows |-> {}]

NoInput ==
    [searchType |-> "", numResults |-> 0,
     embedding |-> FALSE, vector |-> Failed, fallback |-> Failed, keyword |-> Failed]

IdleInvocation ==
    [pc |-> "idle", status |-> "none", n |-> 0, k |-> 0,
     entities |-> <<>>, relationships |-> <<>>,
     nodes |-> <<>>, edges |-> <<>>, validEdges |-> <<>>,
     chat |-> "none", trace |-> <<>>]

Init ==
    /\ nodes = {}
    /\ edges = {}
    /\ nextId = 0
    /\ inv = [c \in Callers |-> IdleInvocation]
    /\ ret = NoCall
    /\ given = NoInput

----------------------------------------------------------------------------
(* Graphiti.addEpisodes, one action per await *)

Called(l, what, ok, ids) ==
    Append(l.trace, [ep |-> l.k, call |-> what, ok |-> ok, ids |-> ids])

\* processEpisode returned: the for loop takes the next episode or ends
EpisodeDone(l) ==
    IF l.k < l.n
    THEN [l EXCEPT !.k = l.k + 1, !.pc = "extractEntities"]
    ELSE [l EXCEPT !.pc = "return", !.status = "ok"]

EpisodeFailed_continues(l) == EpisodeDone(l)

\* processEpisode threw: addEpisodes logs and rethrows
EpisodeFailed(l) == [l EXCEPT !.pc = "return", !.status = "error"]

FirstWrite_unguarded(l) == [l EXCEPT !.pc = "addNodes"]

\* if (nodes.length > 0) addNodes; if (validEdges.length > 0) addEdges:
\* where processEpisode goes once the batches are built
FirstWrite(l) ==
    IF Len(l.nodes) > 0 THEN [l EXCEPT !.pc = "addNodes"]
    ELSE IF Len(l.validEdges) > 0 THEN [l EXCEPT !.pc = "addEdges"]
    ELSE EpisodeDone(l)

\* where processEpisode goes once addNodes has returned
SecondWrite(l) ==
    IF Len(l.validEdges) > 0 THEN [l EXCEPT !.pc = "addEdges"] ELSE EpisodeDone(l)

AddEpisodes(c, n) ==
    /\ inv[c].pc = "idle"
    /\ ret.op = "none"
    /\ inv' = [inv EXCEPT ![c] =
            IF n = 0
            THEN [IdleInvocation EXCEPT !.pc = "return", !.status = "ok"]
            ELSE [IdleInvocation EXCEPT !.pc = "extractEntities", !.status = "running",
                                        !.n = n, !.k = 1]]
    /\ UNCHANGED <<nodes, edges, nextId, ret, given>>

RECURSIVE Sum(_, _)
Sum(f, S) == IF S = {} THEN 0 ELSE LET x == CHOOSE y \in S : TRUE IN f[x] + Sum(f, S \ {x})

\* the identifiers that the records extracted so far will take when their
\* invocations materialize them
Pending ==
    Sum([d \in DOMAIN inv |->
            IF inv[d].pc \in {"extractRelationships", "generateSummary"}
            THEN Len(inv[d].entities) + Len(inv[d].relationships) ELSE 0],
        DOMAIN inv)

\* how many more records an extraction may return within MaxIds identifiers
Room(max) == Min(max, IF MaxIds - nextId - Pending > 0 THEN MaxIds - nextId - Pending ELSE 0)

ExtractEntities_abortsOnMalformed(c) ==
    /\ inv[c].pc = "extractEntities"
    /\ \E response \in ChatOutcomes(EntityRecords, Room(MaxEntities)) :
         LET l == [inv[c] EXCEPT !.entities = extractEntities(response),
                                 !.relationships = <<>>,
                                 !.nodes = <<>>, !.edges = <<>>, !.validEdges = <<>>,
                                 !.chat = response.kind,
                                 !.trace = Called(inv[c], "extractEntities",
                                                  response.kind # "malformed", {})]
         IN  inv' = [inv EXCEPT ![c] =
                        IF response.kind = "malformed" THEN EpisodeFailed(l)
                        ELSE [l EXCEPT !.pc = "extractRelationships"]]
    /\ UNCHANGED <<nodes, edges, nextId, ret, given>>

ExtractEntities(c) ==
    /\ inv[c].pc = "extractEntities"
    /\ \E response \in ChatOutcomes(EntityRecords, Room(MaxEntities)) :
         /\ inv' = [inv EXCEPT ![c] =
                [@ EXCEPT !.pc = "extractRelationships",
                          !.entities = extractEntities(response),
                          !.relationships = <<>>,
                          !.nodes = <<>>, !.edges = <<>>, !.validEdges = <<>>,
                          !.chat = response.kind,
                          !.trace = Called(inv[c], "extractEntities", TRUE, {})]]
    /\ UNCHANGED <<nodes, edges, nextId, ret, given>>

ExtractRelationships_writesFirst(c) ==
    /\ inv[c].pc = "extractRelationships"
    /\ \E response \in ChatOutcomes(RelationshipRecords, Room(MaxRelationships)) :
         /\ inv' = [inv EXCEPT ![c] =
                [@ EXCEPT !.pc = "generateSummary",
                          !.relationships = extractRelationships(response),
                          !.chat = response.kind,
                          !.trace = Called(inv[c], "extractRelationships", TRUE, {})]]
    /\ nodes' = addNodes(nodes, MakeNodes(inv[c].entities, nextId))
    /\ UNCHANGED <<edges, nextId, ret, given>>

ExtractRelationships(c) ==
    /\ inv[c].pc = "extractRelationships"
    /\ \E response \in ChatOutcomes(RelationshipRecords, Room(MaxRelationships)) :
         /\ inv' = [inv EXCEPT ![c] =
                [@ EXCEPT !.pc = "generateSummary",
                          !.relationships = extractRelationships(response),
                          !.chat = response.kind,
                          !.trace = Called(inv[c], "extractRelationships", TRUE, {})]]
    /\ UNCHANGED <<nodes, edges, nextId, ret, given>>

GenerateSummary_sharedBatch(c) ==
    /\ inv[c].pc = "generateSummary"
    /\ LET l  == inv[c]
           ns == MakeNodes(l.entities, nextId)
           shared == inv[3 - c].nodes \o ns
           es == MakeEdges(l.relationships, shared, nextId + Len(l.entities))
           ve == filterValidEdges(es)
           m  == [l EXCEPT !.nodes = ns, !.edges = es, !.validEdges = ve,
                           !.chat = "none",
                           !.trace = Called(l, "generateSummary", TRUE, {})]
       IN  /\ nextId' = nextId + Len(l.entities) + Len(l.relationships)
           /\ inv' = [inv EXCEPT ![c] = FirstWrite(m)]
    /\ UNCHANGED <<nodes, edges, ret, given>>

\* generateSummary never throws (it falls back to a prefix of the text); on its
\* return the nodes and edges are built and the first write, if any, is issued
GenerateSummary(c) ==
    /\ inv[c].pc = "generateSummary"
    /\ LET l  == inv[c]
           ns == MakeNodes(l.entities, nextId)
           es == MakeEdges(l.relationships, ns, nextId + Len(l.entities))
           ve == filterValidEdges(es)
           m  == [l EXCEPT !.nodes = ns, !.edges = es, !.validEdges = ve,
                           !.chat = "none",
                           !.trace = Called(l, "generateSummary", TRUE, {})]
       IN  /\ nextId' = nextId + Len(l.entities) + Len(l.relationships)
           /\ inv' = [inv EXCEPT ![c] = FirstWrite(m)]
    /\ UNCHANGED <<nodes, edges, ret, given>>

AddNodes(c) ==
    /\ inv[c].pc = "addNodes"
    /\ LET l == inv[c]
           ids == {l.nodes[i].id : i \in DOMAIN l.nodes}
       IN  \/ /\ nodes' = addNodes(nodes, l.nodes)
              /\ inv' = [inv EXCEPT ![c] =
                    SecondWrite([l EXCEPT !.trace = Called(l, "addNodes", TRUE, ids)])]
           \/ /\ nodes' = nodes
              /\ inv' = [inv EXCEPT ![c] =
                    EpisodeFailed([l EXCEPT !.trace = Called(l, "addNodes", FALSE, {})])]
    /\ UNCHANGED <<edges, nextId, ret, given>>

EdgeWriteFailed_rollsBack(storeNodes, batch) ==
    {n \in storeNodes : \A i \in DOMAIN batch : n.elem # batch[i].id}

\* the store's nodes once addEdges has thrown: processEpisode has no catch and
\* the one of addEpisodes only logs and rethrows, so the nodes written by
\* addNodes for the same episode stay
EdgeWriteFailed(storeNodes, batch) == storeNodes

AddEdges(c) ==
    /\ inv[c].pc = "addEdges"
    /\ LET l == inv[c]
           created == addEdges(nodes, edges, l.validEdges) \ edges
       IN  \/ /\ edges' = addEdges(nodes, edges, l.validEdges)
              /\ nodes' = nodes
              /\ inv' = [inv EXCEPT ![c] =
                    EpisodeDone([l EXCEPT !.trace =
                        Called(l, "addEdges", TRUE, {e.id : e \in created})])]
           \/ /\ edges' = edges
              /\ nodes' = EdgeWriteFailed(nodes, l.nodes)
              /\ inv' = [inv EXCEPT ![c] =
                    EpisodeFailed([l EXCEPT !.trace = Called(l, "addEdges", FALSE, {})])]
    /\ UNCHANGED <<nextId, ret, given>>

----------------------------------------------------------------------------
(* The read operations, each call one action *)

Queries == {"", "a"}

\* what one searchNodes call can answer in the current store
SearchNodesOutcomes(query, limit) ==
    {searchNodes(dbOk, records) :
        dbOk \in BOOLEAN, records \in QueryRecords(nodes, query, limit)}

Search(c, query, numResults, searchType) ==
    /\ inv[c].pc = "idle"
    /\ ret.op = "none"
    /\ \E embedding \in BOOLEAN :
       \E found \in SearchNodesOutcomes("", numResults) :
       \E fallback, keyword \in SearchNodesOutcomes(query, numResults) :
         LET g == [searchType |-> searchType, numResults |-> numResults,
                   embedding |-> embedding, vector |-> vectorSearch(found),
                   fallback |-> fallback, keyword |-> keyword]
             r == search(searchType, numResults, g)
         IN  ret' = [NoCall EXCEPT !.op = "search", !.searchType = searchType,
                                   !.numResults = numResults, !.raised = r.raised,
                                   !.results = r.results, !.calls = r.calls]
    /\ UNCHANGED <<nodes, edges, nextId, inv, given>>

HealthCheck(c) ==
    /\ inv[c].pc = "idle"
    /\ ret.op = "none"
    /\ \E connected, embedded \in BOOLEAN : \E reply \in LlmReplies :
         LET r == healthCheck(databaseHealthCheck(connected), reply,
                              testConnection(embedded))
         IN  ret' = [NoCall EXCEPT !.op = "healthCheck", !.raised = r.raised,
                                   !.calls = r.calls, !.health = r.health,
                                   !.probes = [connected |-> connected, reply |-> reply,
                                               embedded |-> embedded]]
    /\ UNCHANGED <<nodes, edges, nextId, inv, given>>

GetEntities(c, name) ==
    /\ inv[c].pc = "idle"
    /\ ret.op = "none"
    /\ \E answer \in Answers :
         LET r == getEntities(searchByName(nodes, name, answer))
         IN  ret' = [NoCall EXCEPT !.op = "getEntities", !.answer = answer,
                                   !.raised = r.raised,
                                   !.error = r.error, !.rows = r.rows,
                                   !.calls = <<"searchByName">>]
    /\ UNCHANGED <<nodes, edges, nextId, inv, given>>

GetFacts(c, sourceName, targetName) ==
    /\ inv[c].pc = "idle"
    /\ ret.op = "none"
    /\ \E answer \in Answers :
         LET r == getFacts(databaseGetFacts(nodes, edges, sourceName, targetName, answer))
         IN  ret' = [NoCall EXCEPT !.op = "getFacts", !.answer = answer,
                                   !.raised = r.raised,
                                   !.error = r.error, !.rows = r.rows,
                                   !.calls = <<"getFacts">>]
    /\ UNCHANGED <<nodes, edges, nextId, inv, given>>

\* the caller has its answer (a value or an error): the call's locals are gone
Return(c) ==
    /\ inv[c].pc = "return" \/ ret.op # "none"
    /\ inv' = [inv EXCEPT ![c] = IdleInvocation]
    /\ ret' = NoCall
    /\ UNCHANGED <<nodes, edges, nextId, given>>

----------------------------------------------------------------------------

Next ==
    \/ \E n \in 0..MaxEpisodes : AddEpisodes(1, n)
    \/ ExtractEntities(1)
    \/ ExtractRelationships(1)
    \/ GenerateSummary(1)
    \/ AddNodes(1)
    \/ AddEdges(1)
    \/ \E q \in Queries, n \in 1..MaxLimit, t \in SearchTypes : Search(1, q, n, t)
    \/ HealthCheck(1)
    \/ \E name \in Queries : GetEntities(1, name)
    \/ \E sourceName, targetName \in Queries : GetFacts(1, sourceName, targetName)
    \/ Return(1)

Spec == Init /\ [][Next]_vars

----------------------------------------------------------------------------
(* Graphiti.search as a function of what its collaborators answer: the      *)
(* embedding call, the vector lookup, the keyword lookup of the fallback    *)
(* and the keyword lookup proper, each a list of at most numResults rows    *)
(* (LIMIT $limit) scored as the driver scores them, or a failure            *)

RowIds == {NoId} \cup (1..MaxRowId)

Rows(score, n) ==
    {[i \in DOMAIN f |-> [id |-> f[i], score |-> score]] : f \in BoundedSeq(RowIds, n)}

Lookups(score, n) == {[ok |-> TRUE, rows |-> rows] : rows \in Rows(score, n)} \cup {Failed}

\* the outcomes of the calls behind semanticSearch: the vector lookup's rows,
\* or a failed embedding call or vector lookup and the fallback's lookup
SemanticInputs(n) ==
    {[embedding |-> TRUE, vector |-> [ok |-> TRUE, rows |-> v], fallback |-> Failed]
        : v \in Rows(VectorScore, n)}
    \cup
    {[embedding |-> e, vector |-> Failed, fallback |-> f]
        : e \in BOOLEAN, f \in Lookups(QueryScore, n)}

InitSearch ==
    /\ nodes = {}
    /\ edges = {}
    /\ nextId = 0
    /\ inv = [c \in Callers |-> IdleInvocation]
    /\ ret = NoCall
    /\ \E t \in SearchTypes, n \in 1..MaxLimit :
       \E s \in SemanticInputs(n), k \in Lookups(QueryScore, n) :
         given = [searchType |-> t, numResults |-> n, embedding |-> s.embedding,
                  vector |-> s.vector, fallback |-> s.fallback, keyword |-> k]

ApplySearch ==
    /\ ret.op = "none"
    /\ LET r == search(given.searchType, given.numResults, given)
       IN  ret' = [NoCall EXCEPT !.op = "search", !.searchType = given.searchType,
                                 !.numResults = given.numResults, !.raised = r.raised,
                                 !.results = r.results, !.calls = r.calls]
    /\ UNCHANGED <<nodes, edges, nextId, inv, given>>

SpecSearch == InitSearch /\ [][ApplySearch]_vars

----------------------------------------------------------------------------
(* The tool-call handler of GraphitiMcpServer: the input schemas             *)
(*                                                                          *)
(* A string argument is "text", a value of another type is "other", a       *)
(* missing key is "absent".  A number is given in tenths, so that 15 is     *)
(* 1.5 and a multiple of 10 is an integer.                                  *)

MinNumResults == 1
MaxNumResults == 100
DefaultNumResults == 10

StringArgs == {"absent", "text", "other"}

NumberArgs ==
    {[kind |-> "absent", tenths |-> 0], [kind |-> "other", tenths |-> 0]}
        \cup {[kind |-> "number", tenths |-> t] :
                t \in {0, 10, 15, 10 * MaxNumResults, 10 * MaxNumResults + 10}}

\* an episode object with its two required keys
EpisodeArgs == [name : {"absent", "text"}, content : {"absent", "text"}]

EpisodesArgs ==
    {[kind |-> "absent", items |-> <<>>], [kind |-> "other", items |-> <<>>]}
        \cup {[kind |-> "array", items |-> l] : l \in BoundedSeq(EpisodeArgs, MaxEpisodes)}

\* the arguments object of a request without any key
NoArgs ==
    [defined |-> TRUE,
     episodes |-> [kind |-> "absent", items |-> <<>>],
     query |-> "absent",
     num_results |-> [kind |-> "absent", tenths |-> 0],
     search_type |-> "absent",
     name |-> "absent", entity_type |-> "absent",
     source_node_name |-> "absent", target_node_name |-> "absent",
     fact_type |-> "absent"]

\* z.string()
isString(v) == v = "text"

\* z.string().optional()
isOptionalString(v) == v \in {"absent", "text"}

\* z.number().int().min(1).max(100)
isNumResults(v) ==
    /\ v.kind = "number"
    /\ v.tenths % 10 = 0
    /\ v.tenths >= 10 * MinNumResults
    /\ v.tenths <= 10 * MaxNumResults

\* AddEpisodesInputSchema.parse: a non-empty array of objects with a string
\* name and a string content
AddEpisodesInputSchema(args) ==
    LET good == /\ args.defined
                /\ args.episodes.kind = "array"
                /\ Len(args.episodes.items) >= 1
                /\ \A i \in DOMAIN args.episodes.items :
                     isString(args.episodes.items[i].name)
                         /\ isString(args.episodes.items[i].content)
    IN  [ok |-> good,
         issues |-> IF good THEN <<>>
                    ELSE IF args.defined THEN <<"episodes">> ELSE <<"">>,
         episodes |-> IF good THEN Len(args.episodes.items) ELSE 0,
         num_results |-> 0, search_type |-> ""]

SearchModes == {"semantic", "keyword", "hybrid"}

\* SearchInputSchema.parse, with the defaults 10 and 'hybrid'
SearchInputSchema(args) ==
    LET bad(f) ==
            CASE f = "query" -> ~isString(args.query)
              [] f = "num_results" ->
                    ~(args.num_results.kind = "absent" \/ isNumResults(args.num_results))
              [] OTHER -> args.search_type \notin SearchModes \cup {"absent"}
        issues == IF args.defined
                  THEN SelectSeq(<<"query", "num_results", "search_type">>, bad)
                  ELSE <<"">>
    IN  [ok |-> issues = <<>>,
         issues |-> issues,
         episodes |-> 0,
         num_results |-> IF issues # <<>> THEN 0
                         ELSE IF args.num_results.kind = "absent" THEN DefaultNumResults
                         ELSE args.num_results.tenths \div 10,
         search_type |-> IF issues # <<>> THEN ""
                         ELSE IF args.search_type = "absent" THEN "hybrid"
                         ELSE args.search_type]

\* GetEntitiesInputSchema.parse
GetEntitiesInputSchema(args) ==
    LET bad(f) ==
            CASE f = "name" -> ~isString(args.name)
              [] OTHER -> ~isOptionalString(args.entity_type)
        issues == IF args.defined THEN SelectSeq(<<"name", "entity_type">>, bad)
                  ELSE <<"">>
    IN  [ok |-> issues = <<>>, issues |-> issues,
         episodes |-> 0, num_results |-> 0, search_type |-> ""]

\* GetFactsInputSchema.parse
GetFactsInputSchema(args) ==
    LET bad(f) ==
            CASE f = "source_node_name" -> ~isOptionalString(args.source_node_name)
              [] f = "target_node_name" -> ~isOptionalString(args.target_node_name)
              [] OTHER -> ~isOptionalString(args.fact_type)
        issues == IF args.defined
                  THEN SelectSeq(<<"source_node_name", "target_node_name", "fact_type">>, bad)
                  ELSE <<"">>
    IN  [ok |-> issues = <<>>, issues |-> issues,
         episodes |-> 0, num_results |-> 0, search_type |-> ""]

----------------------------------------------------------------------------
(* The tool-call handler of GraphitiMcpServer: the switch and its catch     *)
(*                                                                          *)
(* A text is its leading words, the count printed after them and the words  *)
(* that follow; "Y" and "N" stand for the check mark and the cross.         *)

ToolNames == {"add_episodes", "search", "get_entities", "get_facts", "health_check"}

\* the catch clause: `Error: ${errorMessage}` with isError
ErrorResult(message, calls) ==
    [raised |-> FALSE, isError |-> TRUE,
     text |-> [head |-> "Error: ", count |-> 0, words |-> message],
     calls |-> calls]

TextResult(head, count, words, calls) ==
    [raised |-> FALSE, isError |-> FALSE,
     text |-> [head |-> head, count |-> count, words |-> words],
     calls |-> calls]

ToolCase_callsBeforeParse(parsed, method, outcome, head, count) ==
    IF ~parsed.ok THEN ErrorResult(parsed.issues, <<method>>)
    ELSE IF outcome.raised THEN ErrorResult(<<outcome.cause>>, <<method>>)
    ELSE TextResult(head, count, <<>>, <<method>>)

\* one case of the switch: parse the arguments, then await the Graphiti
\* method, then format its answer; a throw of either lands in the catch
ToolCase(parsed, method, outcome, head, count) ==
    IF ~parsed.ok THEN ErrorResult(parsed.issues, <<>>)
    ELSE IF outcome.raised THEN ErrorResult(<<outcome.cause>>, <<method>>)
    ELSE TextResult(head, count, <<>>, <<method>>)

Mark(b) == IF b THEN "Y" ELSE "N"

\* the health_check case
HealthCase(health) ==
    TextResult("Graphiti server status: ", 0,
               <<IF health.database /\ health.llm THEN "healthy" ELSE "unhealthy",
                 "Database: " \o Mark(health.database),
                 "LLM: " \o Mark(health.llm)>>,
               <<"healthCheck">>)

\* the CallToolRequestSchema handler: outcome is what the awaited Graphiti
\* method does, probes what the three dependencies answer to healthCheck
CallToolRequestHandler(name, args, outcome, probes) ==
    CASE name = "add_episodes" ->
            LET input == AddEpisodesInputSchema(args)
            IN  ToolCase(input, "addEpisodes", outcome,
                         "Successfully added", input.episodes)
      [] name = "search" ->
            ToolCase(SearchInputSchema(args), "search", outcome,
                     "Found", outcome.count)
      [] name = "get_entities" ->
            ToolCase(GetEntitiesInputSchema(args), "getEntities", outcome,
                     IF outcome.count = 0 THEN "No entities found" ELSE "Found",
                     outcome.count)
      [] name = "get_facts" ->
            ToolCase(GetFactsInputSchema(args), "getFacts", outcome,
                     IF outcome.count = 0 THEN "No facts found" ELSE "Found",
                     outcome.count)
      [] name = "health_check" ->
            HealthCase(healthCheck(databaseHealthCheck(probes.connected), probes.reply,
                                   testConnection(probes.embedded)).health)
      [] OTHER -> ErrorResult(<<"Unknown tool: ", name>>, <<>>)

----------------------------------------------------------------------------
(* The handler as a function of the request and of what Graphiti answers    *)

Undefined == [NoArgs EXCEPT !.defined = FALSE]

\* the arguments a client can send with a call of the named tool
ArgsOf(name) ==
    {Undefined} \cup
    CASE name = "add_episodes" -> {[NoArgs EXCEPT !.episodes = e] : e \in EpisodesArgs}
      [] name = "search" ->
            {[NoArgs EXCEPT !.query = q, !.num_results = n, !.search_type = t] :
                q \in StringArgs, n \in NumberArgs,
                t \in SearchModes \cup {"absent", "fuzzy"}}
      [] name = "get_entities" ->
            {[NoArgs EXCEPT !.name = n, !.entity_type = t] :
                n \in StringArgs, t \in StringArgs}
      [] name = "get_facts" ->
            {[NoArgs EXCEPT !.source_node_name = x, !.target_node_name = y,
                            !.fact_type = z] :
                x \in StringArgs, y \in StringArgs, z \in StringArgs}
      [] OTHER -> {NoArgs}

Answered(count) == [raised |-> FALSE, cause |-> "", count |-> count]

Thrown(cause) == [raised |-> TRUE, cause |-> cause, count |-> 0]

\* what the awaited method can do: addEpisodes, getEntities and getFacts
\* rethrow, search with a parsed search_type returns a list
OutcomesOf(name) ==
    CASE name = "add_episodes" -> {Answered(0)} \cup {Thrown(c) : c \in Causes}
      [] name = "search" -> {Answered(n) : n \in 0..1}
      [] name \in {"get_entities", "get_facts"} ->
            {Answered(n) : n \in 0..1} \cup {Thrown(c) : c \in Causes}
      [] OTHER -> {Answered(0)}

ProbesOf(name) ==
    IF name = "health_check"
    THEN [connected : BOOLEAN, reply : LlmReplies, embedded : BOOLEAN]
    ELSE {[connected |-> FALSE, reply |-> "", embedded |-> FALSE]}

NoResult ==
    [op |-> "none", raised |-> FALSE, isError |-> FALSE,
     text |-> [head |-> "", count |-> 0, words |-> <<>>], calls |-> <<>>]

InitTool ==
    /\ nodes = {}
    /\ edges = {}
    /\ nextId = 0
    /\ inv = [c \in Callers |-> IdleInvocation]
    /\ ret = NoResult
    /\ \E name \in ToolNames \cup {"delete_all"} :
       \E args \in ArgsOf(name), outcome \in OutcomesOf(name), probes \in ProbesOf(name) :
         given = [name |-> name, args |-> args, outcome |-> outcome, probes |-> probes]

ApplyTool ==
    /\ ret.op = "none"
    /\ LET r == CallToolRequestHandler(given.name, given.args, given.outcome, given.probes)
       IN  ret' = [op |-> given.name, raised |-> r.raised, isError |-> r.isError,
                   text |-> r.text, calls |-> r.calls]
    /\ UNCHANGED <<nodes, edges, nextId, inv, given>>

SpecTool == InitTool /\ [][ApplyTool]_vars

----------------------------------------------------------------------------
(* Startup: loadConfig and GraphitiMcpServer.run                            *)
(*                                                                          *)
(* A variable of the environment is Unset (process.env gives undefined),    *)
(* the empty string, or a value.                                            *)

Unset == "undefined"

EnvValues == {Unset, "", "value"}

Environments ==
    [NEO4J_URI : EnvValues, NEO4J_USER : EnvValues,
     NEO4J_PASSWORD : EnvValues, EMBEDDING_API_KEY : EnvValues]

\* process.env.X || d : d for undefined and for ''
OrDefault(v, d) == IF v \in {Unset, ""} THEN d ELSE v

NoConfig ==
    [uri |-> "", user |-> "", password |-> "", llm_api_key |-> "",
     embedding_api_key |-> ""]

\* loadConfig: defaults for the database settings, the one API key for the
\* language model and the embedder, and the throw when that key is empty
loadConfig(env) ==
    LET config == [uri |-> OrDefault(env.NEO4J_URI, "bolt://localhost:7687"),
                   user |-> OrDefault(env.NEO4J_USER, "neo4j"),
                   password |-> OrDefault(env.NEO4J_PASSWORD, "neo4j_password"),
                   llm_api_key |-> OrDefault(env.EMBEDDING_API_KEY, ""),
                   embedding_api_key |-> OrDefault(env.EMBEDDING_API_KEY, "")]
    IN  IF config.embedding_api_key = ""
        THEN [raised |-> TRUE, error |-> "EMBEDDING_API_KEY must be provided",
              config |-> NoConfig]
        ELSE [raised |-> FALSE, error |-> "", config |-> config]

\* the five CREATE INDEX ... IF NOT EXISTS statements, in their order
Indexes ==
    <<"entity_id", "entity_name", "entity_type", "relationship_id", "relationship_type">>

IndexNames == {Indexes[i] : i \in DOMAIN Indexes}

\* the sets of indexes the model starts from and the sets of statements the
\* store rejects: none, any one, all
IndexSets == {{}, IndexNames} \cup {{x} : x \in IndexNames}

createIndexes_stopsAtFailure(indexes, rejected) ==
    LET firstBad == IF \E i \in DOMAIN Indexes : Indexes[i] \in rejected
                    THEN CHOOSE i \in DOMAIN Indexes :
                            /\ Indexes[i] \in rejected
                            /\ \A j \in 1..(i - 1) : Indexes[j] \notin rejected
                    ELSE Len(Indexes) + 1
    IN  [raised |-> firstBad <= Len(Indexes),
         attempted |-> SubSeq(Indexes, 1, Min(firstBad, Len(Indexes))),
         indexes |-> indexes \cup {Indexes[i] : i \in 1..(firstBad - 1)}]

\* Neo4jDriver.createIndexes: each statement is run in its own try; one that
\* the store rejects is logged as a warning and the loop goes on; IF NOT
\* EXISTS leaves an existing index as it is
createIndexes(indexes, rejected) ==
    [raised |-> FALSE,
     attempted |-> Indexes,
     indexes |-> indexes \cup (IndexNames \ rejected)]

\* the process before run(): nothing loaded, no connection opened, no tool
\* call served; steps lists the steps of this run, created the index sets
\* that the runs so far left in the store
NotStarted ==
    [op |-> "run", pc |-> "loadConfig", config |-> NoConfig, error |-> "",
     connects |-> <<>>, served |-> 0, steps |-> <<>>, attempted |-> <<>>,
     indexes |-> {}, created |-> <<>>]

InitStartup ==
    /\ nodes = {}
    /\ edges = {}
    /\ nextId = 0
    /\ inv = [c \in Callers |-> IdleInvocation]
    /\ \E existing \in IndexSets : ret = [NotStarted EXCEPT !.indexes = existing]
    /\ \E env \in Environments, rejected \in IndexSets :
         given = [NEO4J_URI |-> env.NEO4J_URI, NEO4J_USER |-> env.NEO4J_USER,
                  NEO4J_PASSWORD |-> env.NEO4J_PASSWORD,
                  EMBEDDING_API_KEY |-> env.EMBEDDING_API_KEY,
                  rejected |-> rejected]

Step(name, ok) == [step |-> name, ok |-> ok]

\* const config = loadConfig(), and process.exit(1) from the catch of run
LoadConfig ==
    /\ ret.pc = "loadConfig"
    /\ LET r == loadConfig(given)
       IN  ret' = IF r.raised
                  THEN [ret EXCEPT !.pc = "exited", !.error = r.error,
                                   !.steps = Append(@, Step("loadConfig", FALSE))]
                  ELSE [ret EXCEPT !.pc = "initialize", !.config = r.config,
                                   !.steps = Append(@, Step("loadConfig", TRUE))]
    /\ UNCHANGED <<nodes, edges, nextId, inv, given>>

Connect_goesOnAfterFailure ==
    /\ ret.pc = "initialize"
    /\ \E answer \in Answers :
         ret' = [ret EXCEPT
                    !.connects = Append(@, [user |-> ret.config.user,
                                            password |-> ret.config.password]),
                    !.pc = "createIndexes",
                    !.error = IF answer = "ok" THEN "" ELSE answer,
                    !.steps = Append(@, Step("connect", answer = "ok"))]
    /\ UNCHANGED <<nodes, edges, nextId, inv, given>>

\* new Graphiti(config) and the first await of graphiti.initialize(): the
\* driver is built with the configured user and password, connect verifies
\* the connection and rethrows, initialize rethrows, run exits
Connect ==
    /\ ret.pc = "initialize"
    /\ \E answer \in Answers :
         ret' = [ret EXCEPT
                    !.connects = Append(@, [user |-> ret.config.user,
                                            password |-> ret.config.password]),
                    !.pc = IF answer = "ok" THEN "createIndexes" ELSE "exited",
                    !.error = IF answer = "ok" THEN "" ELSE answer,
                    !.steps = Append(@, Step("connect", answer = "ok"))]
    /\ UNCHANGED <<nodes, edges, nextId, inv, given>>

\* the second await of graphiti.initialize()
CreateIndexes ==
    /\ ret.pc = "createIndexes"
    /\ LET r == createIndexes(ret.indexes, given.rejected)
       IN  ret' = [ret EXCEPT
                    !.pc = IF r.raised THEN "exited" ELSE "connect",
                    !.error = IF r.raised THEN "index" ELSE "",
                    !.attempted = r.attempted,
                    !.indexes = r.indexes,
                    !.created = Append(@, r.indexes),
                    !.steps = Append(@, Step("createIndexes", ~r.raised))]
    /\ UNCHANGED <<nodes, edges, nextId, inv, given>>

\* server.connect(transport): from here on tool calls arrive
ServerConnect ==
    /\ ret.pc = "connect"
    /\ ret' = [ret EXCEPT !.pc = "running",
                          !.steps = Append(@, Step("serverConnect", TRUE))]
    /\ UNCHANGED <<nodes, edges, nextId, inv, given>>

\* one tool call answered by the running server
ServeToolCall ==
    /\ ret.pc = "running"
    /\ ret.served < MaxServed
    /\ ret' = [ret EXCEPT !.served = @ + 1]
    /\ UNCHANGED <<nodes, edges, nextId, inv, given>>

\* the process has ended (exit, or SIGINT / SIGTERM while running) and is
\* started again on the same store
Restart ==
    /\ ret.pc \in {"exited", "running"}
    /\ Len(ret.created) < MaxRuns
    /\ ret' = [NotStarted EXCEPT !.indexes = ret.indexes, !.created = ret.created]
    /\ UNCHANGED <<nodes, edges, nextId, inv, given>>

NextStartup ==
    LoadConfig \/ Connect \/ CreateIndexes \/ ServerConnect \/ ServeToolCall \/ Restart

SpecStartup == InitStartup /\ [][NextStartup]_vars

----------------------------------------------------------------------------
(* The Logger singleton and createLogger *)

DEBUG == 0
INFO == 1
WARN == 2
ERROR == 3

LogLevel == {DEBUG, INFO, WARN, ERROR}

\* the level names createLogger is called with, one of them unknown
LevelNames == {"debug", "info", "warn", "error", "verbose"}

\* logLevelMap[level]: the mapped level, nothing (undefined) for another name
logLevelMap(level) ==
    CASE level = "debug" -> <<DEBUG>>
      [] level = "info" -> <<INFO>>
      [] level = "warn" -> <<WARN>>
      [] level = "error" -> <<ERROR>>
      [] OTHER -> <<>>

\* logLevelMap[level] || LogLevel.INFO : INFO for undefined and for 0
createLogger(level) ==
    LET mapped == logLevelMap(level)
    IN  IF mapped = <<>> \/ mapped[1] = 0 THEN INFO ELSE mapped[1]

\* Logger.shouldLog
shouldLog(level, logLevel) == level >= logLevel

\* no Logger.instance yet; logs holds, for each level, what became of the
\* last message of that level since the threshold was last set
NoLogger ==
    [op |-> "logger", instance |-> FALSE, logLevel |-> INFO,
     logs |-> [l \in LogLevel |-> "none"]]

InitLogger ==
    /\ nodes = {}
    /\ edges = {}
    /\ nextId = 0
    /\ inv = [c \in Callers |-> IdleInvocation]
    /\ ret = NoLogger
    /\ given = [name |-> "none"]

\* createLogger(level): Logger.getInstance(logLevel) creates the instance with
\* the level or sets the level of the existing one
CreateLogger(level) ==
    /\ ret' = [ret EXCEPT !.instance = TRUE, !.logLevel = createLogger(level),
                          !.logs = [l \in LogLevel |-> "none"]]
    /\ given' = [name |-> level]
    /\ UNCHANGED <<nodes, edges, nextId, inv>>

\* Logger.setLogLevel on the instance
SetLogLevel(level) ==
    /\ ret.instance
    /\ ret' = [ret EXCEPT !.logLevel = level, !.logs = [l \in LogLevel |-> "none"]]
    /\ given' = [name |-> "none"]
    /\ UNCHANGED <<nodes, edges, nextId, inv>>

\* logger.debug / info / warn / error
Log(level) ==
    /\ ret.instance
    /\ ret' = [ret EXCEPT !.logs[level] =
                    IF shouldLog(level, ret.logLevel) THEN "emitted" ELSE "dropped"]
    /\ UNCHANGED <<nodes, edges, nextId, inv, given>>

NextLogger ==
    \/ \E level \in LevelNames : CreateLogger(level)
    \/ \E level \in LogLevel : SetLogLevel(level)
    \/ \E level \in LogLevel : Log(level)

SpecLogger == InitLogger /\ [][NextLogger]_vars

----------------------------------------------------------------------------
(* Two addEpisodes invocations whose awaits interleave *)

Invocations == {1, 2}

InitConcurrent ==
    /\ nodes = {}
    /\ edges = {}
    /\ nextId = 0
    /\ inv = [c \in Invocations |-> IdleInvocation]
    /\ ret = NoCall
    /\ given = NoInput

\* each invocation is one addEpisodes call of one episode; a step of either
\* may follow a step of the other
NextConcurrent ==
    \E c \in Invocations :
        \/ AddEpisodes(c, 1)
        \/ ExtractEntities(c)
        \/ ExtractRelationships(c)
        \/ GenerateSummary(c)
        \/ AddNodes(c)
        \/ AddEdges(c)

SpecConcurrent == InitConcurrent /\ [][NextConcurrent]_vars

----------------------------------------------------------------------------
(* Properties *)

\* the episode whose entities, relationships and batches the locals hold
LocalsEpisode(l) == IF l.pc = "extractEntities" THEN l.k - 1 ELSE l.k

\* the calls of the trace made for episode e
CallsOf(l, e) == {i \in 1..Len(l.trace) : l.trace[i].ep = e}

Issued(l, e, what) == \E i \in CallsOf(l, e) : l.trace[i].call = what

Succeeded(l, e, what) ==
    \E i \in CallsOf(l, e) : l.trace[i].call = what /\ l.trace[i].ok

\* the batches of the locals have been built (generateSummary has returned)
Materialized(l) == Issued(l, LocalsEpisode(l), "generateSummary")

\* some extracted entity has this name, ignoring case
NamesAnEntity(l, name) ==
    \E i \in 1..Len(l.entities) : ToLower(l.entities[i].name) = ToLower(name)

StoredNode(id) == \E n \in nodes : n.elem = id

StoredEdge(id) == \E e \in edges : e.id = id

Handed(l, id) == \E i \in 1..Len(l.validEdges) : l.validEdges[i].id = id

\* C1: addEpisodes takes the episodes one at a time in input order; when an
\* episode raises, the error reaches the caller, nothing is called for a later
\* episode, and what earlier calls wrote is still in the store.
C1_StopsAtFirstFailure ==
    LET l == inv[1]
        t == l.trace
    IN  /\ \A i \in 1..Len(t) : t[i].ep \in 1..l.k
        /\ Len(t) > 0 => t[1].ep = 1 /\ t[1].call = "extractEntities"
        /\ \A i \in 1..(Len(t) - 1) :
              /\ t[i].ok
              /\ \/ t[i + 1].ep = t[i].ep /\ t[i + 1].call # "extractEntities"
                 \/ t[i + 1].ep = t[i].ep + 1 /\ t[i + 1].call = "extractEntities"
        /\ (\E i \in 1..Len(t) : ~t[i].ok) <=> l.status = "error"
        /\ l.status = "error" => l.pc = "return" /\ t[Len(t)].ep = l.k
        /\ \A i \in 1..Len(t) :
              /\ t[i].call = "addNodes" => \A id \in t[i].ids : StoredNode(id)
              /\ t[i].call = "addEdges" => \A id \in t[i].ids : StoredEdge(id)

\* the second episode failed at its edge write after the first one wrote its
\* nodes: the first episode's nodes and the second's are in the store
C1_Witness ==
    LET l == inv[1]
    IN  /\ l.status = "error" /\ l.n = 2 /\ l.k = 2
        /\ Issued(l, 2, "addEdges") /\ Succeeded(l, 2, "addNodes")
        /\ Succeeded(l, 1, "addNodes")
        /\ nodes # {}

\* C2: every persisted edge joins two persisted nodes that are different nodes.
C2_EdgeEndsExistAndDiffer ==
    \A e \in edges :
        /\ e.source # e.target
        /\ StoredNode(e.source)
        /\ StoredNode(e.target)

C2_Witness == edges # {}

\* the episode of the locals ran to its end without raising
Completed(l) ==
    Materialized(l) /\ l.status # "error" /\ l.pc \in {"extractEntities", "return"}

Unresolved(l, j) ==
    \/ ~NamesAnEntity(l, l.relationships[j].source_entity)
    \/ ~NamesAnEntity(l, l.relationships[j].target_entity)

\* C3: a relationship candidate with an end that names no extracted entity
\* (ignoring case) yields no edge in the batch handed to the store and none in
\* the store, and once the episode has completed every node of the episode and
\* every other edge of it (each one whose ends resolved to two different nodes)
\* is in the store.
C3_UnresolvedCandidateDropped ==
    LET l == inv[1]
    IN  Materialized(l) =>
          \A j \in 1..Len(l.relationships) :
              Unresolved(l, j) =>
                /\ ~Handed(l, l.edges[j].id)
                /\ ~StoredEdge(l.edges[j].id)
                /\ Completed(l) =>
                      /\ \A i \in 1..Len(l.nodes) : StoredNode(l.nodes[i].id)
                      /\ \A i \in 1..Len(l.validEdges) :
                            StoredEdge(l.validEdges[i].id)

\* an episode with an unresolved candidate has completed, and an edge of it
\* that was handed to the store is not in the store
C3_Witness ==
    LET l == inv[1]
    IN  /\ Completed(l)
        /\ \E j \in 1..Len(l.relationships) : Unresolved(l, j)
        /\ \A i \in 1..Len(l.nodes) : \E n \in nodes : n.elem = l.nodes[i].id
        /\ \E i \in 1..Len(l.validEdges) : ~StoredEdge(l.validEdges[i].id)

\* C4: a candidate whose two ends resolve to the same node identifier is not in
\* the batch handed to the store, and the store holds no edge from a node to
\* itself.
C4_SelfLoopDropped ==
    LET l == inv[1]
    IN  /\ Materialized(l) =>
              \A j \in 1..Len(l.edges) :
                  l.edges[j].source_id = l.edges[j].target_id
                  => ~Handed(l, l.edges[j].id) /\ ~StoredEdge(l.edges[j].id)
        /\ \A e \in edges : e.source # e.target

\* both ends of a candidate resolved to one node, which has been written
C4_Witness ==
    LET l == inv[1]
    IN  /\ Succeeded(l, LocalsEpisode(l), "addNodes")
        /\ \E j \in 1..Len(l.edges) :
              /\ l.edges[j].source_id = l.edges[j].target_id
              /\ StoredNode(l.edges[j].source_id)

\* C5: an episode without extracted entities ends without error and without a
\* write: neither addNodes nor addEdges is issued for it, and no edge of its
\* candidates is in the store.
C5_NoEntitiesNoWrites ==
    LET l == inv[1]
        e == LocalsEpisode(l)
    IN  (Materialized(l) /\ l.entities = <<>>) =>
          /\ ~Issued(l, e, "addNodes")
          /\ ~Issued(l, e, "addEdges")
          /\ \A j \in 1..Len(l.edges) : ~StoredEdge(l.edges[j].id)
          /\ l.status # "error"
          /\ l.pc \in {"extractEntities", "return"}

\* an episode with candidates but no entities has returned
C5_Witness ==
    LET l == inv[1]
    IN  /\ l.pc = "return" /\ l.status = "ok" /\ l.n > 0
        /\ l.entities = <<>> /\ l.relationships # <<>>

\* what the two sub-searches of a hybrid search returned
SemanticResults == semanticSearch(given).results

KeywordResults == keywordSearch(given.keyword)

ScoresOf(rs, id) == {rs[i].score : i \in {j \in 1..Len(rs) : rs[j].id = id}}

Occurrences(rs, id) == Cardinality({j \in 1..Len(rs) : rs[j].id = id})

\* C6: in a hybrid search an item found by both sub-searches scores
\* semantic * 1.2 + keyword * 0.8, one found by the keyword sub-search alone
\* keyword * 0.8, one found by the semantic sub-search alone semantic * 1.2
\* (for items each sub-search returned at most once).
C6_HybridScores ==
    (ret.op = "search" /\ ret.searchType = "hybrid") =>
        \A i \in 1..Len(ret.results) :
            LET id == ret.results[i].id
                sem == ScoresOf(SemanticResults, id)
                kw == ScoresOf(KeywordResults, id)
            IN  (Occurrences(SemanticResults, id) <= 1
                    /\ Occurrences(KeywordResults, id) <= 1)
                => \/ /\ sem # {} /\ kw # {}
                      /\ \E s \in sem, k \in kw :
                            ret.results[i].score
                                = Scaled(s, SemanticWeight) + Scaled(k, KeywordWeight)
                   \/ /\ sem = {} /\ kw # {}
                      /\ \E k \in kw : ret.results[i].score = Scaled(k, KeywordWeight)
                   \/ /\ sem # {} /\ kw = {}
                      /\ \E s \in sem : ret.results[i].score = Scaled(s, SemanticWeight)

\* a hybrid search returned an item that the keyword sub-search alone found,
\* with the score the keyword sub-search gave it
C6_Witness ==
    /\ ret.op = "search" /\ ret.searchType = "hybrid"
    /\ \E i \in 1..Len(ret.results) :
          /\ ScoresOf(SemanticResults, ret.results[i].id) = {}
          /\ ScoresOf(KeywordResults, ret.results[i].id) = {ret.results[i].score}
          /\ ret.results[i].score # Scaled(ret.results[i].score, KeywordWeight)

Sorted(rs) == \A i \in 1..(Len(rs) - 1) : rs[i].score >= rs[i + 1].score

\* C7: in every mode the result of search has at most numResults entries and
\* is ordered by non-increasing score.
C7_TruncatedAndSorted ==
    (ret.op = "search" /\ ~ret.raised) =>
        /\ Len(ret.results) <= ret.numResults
        /\ Sorted(ret.results)

\* a hybrid search put the item the keyword sub-search found before the one
\* the semantic sub-search found first
C7_Witness ==
    /\ ret.op = "search" /\ ret.searchType = "hybrid"
    /\ Len(ret.results) = 2 /\ Len(SemanticResults) > 0
    /\ ret.results[1].score > ret.results[2].score
    /\ ret.results[2].id = SemanticResults[1].id

\* C8: search with an unsupported mode raises before any call to the embedding
\* provider or the graph store.
C8_UnsupportedTypeRejected ==
    (ret.op = "search" /\ ret.searchType \notin {"semantic", "keyword", "hybrid"}) =>
        /\ ret.raised
        /\ ret.calls = <<>>
        /\ ret.results = <<>>

C8_Witness ==
    ret.op = "search" /\ ret.searchType = "bogus" /\ ret.raised /\ nodes # {}

\* C9: a semantic search never raises, and when the embedding call or the
\* vector lookup failed it returns what a keyword search returns on the
\* lookup the fallback made.
C9_SemanticFallsBack ==
    (ret.op = "search" /\ ret.searchType = "semantic") =>
        /\ ~ret.raised
        /\ (~given.embedding \/ ~given.vector.ok) =>
              ret.results =
                search("keyword", given.numResults,
                       [given EXCEPT !.keyword = given.fallback]).results

\* the embedding call failed and the fallback found something
C9_Witness ==
    /\ ret.op = "search" /\ ret.searchType = "semantic"
    /\ ~given.embedding /\ ret.results # <<>>

\* C10: healthCheck never raises, attempts its three probes whatever each one
\* yields, and reports for each dependency the outcome of its own probe.
C10_ProbesIsolated ==
    ret.op = "healthCheck" =>
        /\ ~ret.raised
        /\ ret.calls = <<"database", "llm", "embedding">>
        /\ ret.health.database = ret.probes.connected
        /\ ret.health.llm = (ret.probes.reply = "OK")
        /\ ret.health.embedding = ret.probes.embedded

\* the store is reachable, the language-model probe throws, the embedder works
C10_Witness ==
    /\ ret.op = "healthCheck"
    /\ ret.probes.connected /\ ret.probes.reply = "throws" /\ ret.probes.embedded
    /\ ret.health = [database |-> TRUE, llm |-> FALSE, embedding |-> TRUE]

\* some persisted node carries this identifier
PersistedIdentifier(id) == \E n \in nodes : n.id = id

\* C11: the edge batch write never succeeds while an edge of the batch refers
\* to a node identifier that no persisted node carries: once addEdges has
\* returned without error, both identifiers of every edge handed to it are
\* identifiers of persisted nodes and the edge is in the store.
C11_DanglingEdgeRejected ==
    LET l == inv[1]
    IN  (Materialized(l) /\ Succeeded(l, LocalsEpisode(l), "addEdges")) =>
            \A i \in 1..Len(l.validEdges) :
                /\ PersistedIdentifier(l.validEdges[i].source_id)
                /\ PersistedIdentifier(l.validEdges[i].target_id)
                /\ StoredEdge(l.validEdges[i].id)

\* addEdges returned without error and the episode completed, although an
\* edge of the batch names an identifier no persisted node carries; the edge
\* is not in the store
C11_Witness ==
    LET l == inv[1]
    IN  /\ Completed(l)
        /\ Succeeded(l, LocalsEpisode(l), "addEdges")
        /\ \E i \in 1..Len(l.validEdges) :
              /\ ~PersistedIdentifier(l.validEdges[i].target_id)
              /\ ~StoredEdge(l.validEdges[i].id)

\* C12: the node batch is written before the edge batch and nothing is rolled
\* back: an addEdges call follows a successful addNodes call of the same
\* episode, and when addEdges fails the episode is reported as failed, every
\* node of the episode is in the store and none of its edges is.
C12_NodesStayWhenEdgesFail ==
    LET l == inv[1]
        t == l.trace
    IN  \A i \in 1..Len(t) :
            t[i].call = "addEdges" =>
              /\ \E j \in 1..(i - 1) :
                    t[j].ep = t[i].ep /\ t[j].call = "addNodes" /\ t[j].ok
              /\ ~t[i].ok =>
                    /\ l.status = "error" /\ l.pc = "return"
                    /\ t[i].ep = l.k
                    /\ Len(l.nodes) > 0
                    /\ \A k \in 1..Len(l.nodes) : StoredNode(l.nodes[k].id)
                    /\ \A k \in 1..Len(l.edges) : ~StoredEdge(l.edges[k].id)

\* the edge write of an episode failed after its node write succeeded
C12_Witness ==
    LET l == inv[1]
    IN  /\ l.status = "error"
        /\ Len(l.trace) > 0
        /\ l.trace[Len(l.trace)].call = "addEdges"
        /\ ~l.trace[Len(l.trace)].ok
        /\ Succeeded(l, l.k, "addNodes")
        /\ \A k \in 1..Len(l.nodes) : StoredNode(l.nodes[k].id)

\* C13: a transport failure of the language-model call made by entity or
\* relationship extraction aborts the episode: once the call has failed the
\* invocation has ended with an error.
C13_TransportFailurePropagates ==
    inv[1].chat = "failed" =>
        inv[1].status = "error" /\ inv[1].pc = "return"

\* the request of relationship extraction failed, the extractor returned the
\* empty list and the episode goes on to its summary
C13_Witness ==
    LET l == inv[1]
    IN  /\ l.chat = "failed"
        /\ l.pc = "generateSummary"
        /\ l.status = "running"
        /\ l.entities # <<>>
        /\ l.relationships = <<>>

\* the Graphiti method behind each tool
MethodOf(name) ==
    CASE name = "add_episodes" -> "addEpisodes"
      [] name = "search" -> "search"
      [] name = "get_entities" -> "getEntities"
      [] name = "get_facts" -> "getFacts"
      [] OTHER -> "healthCheck"

\* num_results is not an integer in [1,100]
BadNumResults(args) ==
    /\ args.num_results.kind # "absent"
    /\ \/ args.num_results.kind # "number"
       \/ args.num_results.tenths % 10 # 0
       \/ args.num_results.tenths < 10
       \/ args.num_results.tenths > 1000

\* the arguments of a call fail the schema of its tool as the tool list
\* publishes it
FailsSchema(name, args) ==
    \/ name \in ToolNames \ {"health_check"} /\ ~args.defined
    \/ /\ name = "add_episodes"
       /\ \/ args.episodes.kind # "array"
          \/ args.episodes.items = <<>>
          \/ \E i \in DOMAIN args.episodes.items :
                args.episodes.items[i].name # "text"
                    \/ args.episodes.items[i].content # "text"
    \/ /\ name = "search"
       /\ \/ args.query # "text"
          \/ BadNumResults(args)
          \/ args.search_type \notin {"absent", "semantic", "keyword", "hybrid"}
    \/ /\ name = "get_entities"
       /\ args.name # "text" \/ args.entity_type = "other"
    \/ /\ name = "get_facts"
       /\ "other" \in {args.source_node_name, args.target_node_name, args.fact_type}

\* C14: a tool call whose arguments fail the schema is answered with an error
\* result, and no Graphiti method (hence no extractor, embedding provider or
\* graph store) has been called for it.
C14_InvalidArgumentsRejected ==
    (ret.op \in ToolNames /\ FailsSchema(given.name, given.args)) =>
        /\ ~ret.raised
        /\ ret.isError
        /\ ret.calls = <<>>

C14_Witness ==
    /\ ret.op = "search"
    /\ given.args.query = "text"
    /\ given.args.search_type = "hybrid"
    /\ given.args.num_results = [kind |-> "number", tenths |-> 1010]
    /\ ret.isError
    /\ ret.calls = <<>>

\* the call fails: an unknown tool, arguments the schema rejects, or a
\* Graphiti method that throws
CallFails ==
    \/ given.name \notin ToolNames
    \/ FailsSchema(given.name, given.args)
    \/ given.outcome.raised

Words(text) == {text.words[i] : i \in DOMAIN text.words}

\* the text names the tool or the Graphiti method behind it
NamesOperation(text, name) == {name, MethodOf(name)} \cap Words(text) # {}

\* C15: the handler never raises, and every failed call is answered with a
\* result flagged isError whose text names the operation that failed and the
\* cause of the failure.
C15_ErrorNamesOperationAndCause ==
    ret.op # "none" =>
        /\ ~ret.raised
        /\ CallFails =>
            /\ ret.isError
            /\ ret.text.head = "Error: "
            /\ ret.text.words # <<>>
            /\ given.outcome.raised => given.outcome.cause \in Words(ret.text)
            /\ NamesOperation(ret.text, given.name)

C15_Witness ==
    /\ ret.op = "get_entities"
    /\ given.outcome = Thrown("ServiceUnavailable")
    /\ ret.isError
    /\ ret.text = [head |-> "Error: ", count |-> 0, words |-> <<"ServiceUnavailable">>]

\* what Graphiti.healthCheck answers to the handler in this state
Health ==
    healthCheck(databaseHealthCheck(given.probes.connected), given.probes.reply,
                testConnection(given.probes.embedded)).health

Reports(text, label, b) == (label \o Mark(b)) \in Words(text)

\* C20: the health_check tool reports healthy or unhealthy together with
\* one boolean for each of the graph store, the language model and the
\* embedding provider, and reports unhealthy whenever one of the three
\* booleans is false.
C20_HealthReportsAllThree ==
    ret.op = "health_check" =>
        /\ ~ret.isError
        /\ Len(ret.text.words) >= 1
        /\ ret.text.words[1] \in {"healthy", "unhealthy"}
        /\ Reports(ret.text, "Database: ", Health.database)
        /\ Reports(ret.text, "LLM: ", Health.llm)
        /\ Reports(ret.text, "Embedding: ", Health.embedding)
        /\ ~(Health.database /\ Health.llm /\ Health.embedding) =>
                ret.text.words[1] = "unhealthy"

C20_Witness ==
    /\ ret.op = "health_check"
    /\ Health = [database |-> TRUE, llm |-> TRUE, embedding |-> FALSE]
    /\ ret.text.words = <<"healthy", "Database: Y", "LLM: Y">>

\* C17: when the store lookup behind keyword search fails, a keyword-mode
\* search returns the empty list and does not raise, and a hybrid-mode
\* search returns without raising.
C17_KeywordFailureSwallowed ==
    (ret.op = "search" /\ ~given.keyword.ok) =>
        /\ ret.searchType = "keyword" => ~ret.raised /\ ret.results = <<>>
        /\ ret.searchType = "hybrid" => ~ret.raised

C17_Witness ==
    /\ ret.op = "search"
    /\ ret.searchType = "keyword"
    /\ given.keyword = Failed
    /\ ~ret.raised
    /\ ret.results = <<>>
    /\ ret.calls = <<"searchNodes">>

ReadOperations == {"search", "getEntities", "getFacts", "healthCheck"}

\* C16: the store only grows and only through addEpisodes: every step keeps
\* each persisted node and edge as it is, a step that changes the store is
\* a batch write of a running addEpisodes invocation, and a step in which
\* search, getEntities, getFacts or healthCheck answers leaves the store
\* unchanged.
C16_StoreOnlyGrows ==
    [][/\ nodes \subseteq nodes'
       /\ edges \subseteq edges'
       /\ (nodes' # nodes \/ edges' # edges) =>
            /\ inv[1].status = "running"
            /\ inv[1].pc \in {"addNodes", "addEdges"}
            /\ ret.op = "none" /\ ret'.op = "none"
       /\ (ret.op = "none" /\ ret'.op \in ReadOperations) =>
            nodes' = nodes /\ edges' = edges]_vars

\* getFacts has answered from a store that holds nodes and an edge
C16_Witness ==
    /\ ret.op = "getFacts"
    /\ ~ret.raised
    /\ ret.rows # {}
    /\ ret.rows \subseteq edges
    /\ nodes # {}

\* C18: getEntities and getFacts propagate a failure of the store: when the
\* query fails the call raises the error the store failed with, and it
\* returns a list only when the query succeeded.
C18_StoreFailurePropagates ==
    ret.op \in {"getEntities", "getFacts"} =>
        /\ ret.answer # "ok" => ret.raised /\ ret.error = ret.answer
        /\ ret.answer = "ok" => ~ret.raised /\ ret.error = ""

C18_Witness ==
    /\ ret.op = "getEntities"
    /\ ret.answer = "SessionExpired"
    /\ ret.raised
    /\ ret.error = "SessionExpired"
    /\ nodes # {}

\* a required secret is absent from the environment (the language model and
\* the embedder take their key from the same variable)
SecretAbsent == Unset \in {given.NEO4J_PASSWORD, given.EMBEDDING_API_KEY}

\* C19: with a required secret (store password, language-model key,
\* embedding key) absent from the environment, loading the configuration
\* fails with a descriptive error: once loadConfig has run the process has
\* ended with that error, no connection to the store has been opened and no
\* tool call has been served.
C19_AbsentSecretFailsFast ==
    (ret.op = "run" /\ ret.pc # "loadConfig" /\ SecretAbsent) =>
        /\ ret.pc = "exited"
        /\ ret.error # ""
        /\ ret.config = NoConfig
        /\ ret.connects = <<>>
        /\ ret.served = 0

\* without NEO4J_PASSWORD the server connects with the default password and
\* serves tool calls
C19_Witness ==
    /\ ret.op = "run"
    /\ given.NEO4J_PASSWORD = Unset
    /\ ret.pc = "running"
    /\ ret.served > 0
    /\ ret.connects = <<[user |-> "neo4j", password |-> "neo4j_password"]>>

\* C21: when the language model answers with malformed output, the extraction
\* that asked yields the empty list and the episode goes on: the invocation is
\* still running, at the step that follows the extraction, and no call of the
\* episode has failed.
C21_MalformedOutputYieldsEmptyList ==
    LET l == inv[1]
    IN  l.chat = "malformed" =>
            /\ l.status = "running"
            /\ l.pc \in {"extractRelationships", "generateSummary"}
            /\ l.pc = "extractRelationships" => l.entities = <<>>
            /\ l.pc = "generateSummary" => l.relationships = <<>>
            /\ \A i \in 1..Len(l.trace) : l.trace[i].ep = l.k => l.trace[i].ok

\* relationship extraction got malformed output for an episode that has
\* entities, and the episode goes on to its summary
C21_Witness ==
    LET l == inv[1]
    IN  /\ l.chat = "malformed"
        /\ l.pc = "generateSummary"
        /\ l.status = "running"
        /\ l.entities # <<>>
        /\ l.relationships = <<>>
        /\ l.k = 2

\* C22: no two persisted nodes share an identifier, whatever the extractor
\* returned and however often a name repeats.
C22_IdentifiersUnique ==
    \A m, n \in nodes : m.id = n.id => m = n

\* two graph elements, created for two extracted entities, carry the same
\* identifier
C22_Witness ==
    \E m, n \in nodes : m.elem # n.elem /\ m.id = n.id /\ m.id \in ExtractorIds

\* C29: every persisted node carries the identifier synthesized for it
\* during materialization, whatever its extractor-supplied attributes hold,
\* so once the edge batch of an episode has been written every edge of the
\* batch is in the store.
C29_PersistedIdIsSynthesized ==
    LET l == inv[1]
    IN  /\ \A n \in nodes : n.id = n.elem
        /\ (Materialized(l) /\ Succeeded(l, LocalsEpisode(l), "addEdges")) =>
                \A i \in 1..Len(l.validEdges) : StoredEdge(l.validEdges[i].id)

\* the node of an entity whose attributes hold the key id is persisted under
\* that value, and an edge of the episode that resolved to the node is not
\* in the store after the edge batch was written
C29_Witness ==
    LET l == inv[1]
    IN  /\ Completed(l)
        /\ Succeeded(l, LocalsEpisode(l), "addEdges")
        /\ \E i \in 1..Len(l.validEdges), n \in nodes :
              /\ n.elem = l.validEdges[i].target_id
              /\ n.id \in ExtractorIds
              /\ ~StoredEdge(l.validEdges[i].id)

\* the position of the first node of the batch whose name equals this one
\* ignoring case, 0 when there is none
FirstNamed(l, name) ==
    IF \E i \in 1..Len(l.nodes) : ToLower(l.nodes[i].name) = ToLower(name)
    THEN CHOOSE i \in 1..Len(l.nodes) :
            /\ ToLower(l.nodes[i].name) = ToLower(name)
            /\ \A k \in 1..(i - 1) : ToLower(l.nodes[k].name) # ToLower(name)
    ELSE 0

\* C28: a relationship end that names an extracted entity (ignoring case)
\* resolves to the first node of the batch with that name, also when several
\* nodes have it; a relationship whose ends differ only in case therefore
\* resolves both ends to one node and is not handed to the edge write.
C28_FirstMatchIgnoringCase ==
    LET l == inv[1]
    IN  Materialized(l) =>
            \A j \in 1..Len(l.edges) :
                LET rel == l.relationships[j]
                    src == FirstNamed(l, rel.source_entity)
                    tgt == FirstNamed(l, rel.target_entity)
                IN  /\ src # 0 => l.edges[j].source_id = l.nodes[src].id
                    /\ tgt # 0 => l.edges[j].target_id = l.nodes[tgt].id
                    /\ (src # 0 /\ ToLower(rel.source_entity) = ToLower(rel.target_entity))
                        => /\ l.edges[j].source_id = l.edges[j].target_id
                           /\ ~Handed(l, l.edges[j].id)
                           /\ ~StoredEdge(l.edges[j].id)

\* two extracted entities have names equal ignoring case, and a relationship
\* between the two names resolved both ends to the first of them
C28_Witness ==
    LET l == inv[1]
    IN  /\ Materialized(l)
        /\ Len(l.nodes) = 2
        /\ l.nodes[1].name # l.nodes[2].name
        /\ ToLower(l.nodes[1].name) = ToLower(l.nodes[2].name)
        /\ \E j \in 1..Len(l.edges) :
              /\ l.relationships[j].source_entity # l.relationships[j].target_entity
              /\ l.edges[j].source_id = l.nodes[1].id
              /\ l.edges[j].target_id = l.nodes[1].id
              /\ ~Handed(l, l.edges[j].id)

ExtractorCalls == <<"extractEntities", "extractRelationships", "generateSummary">>

\* the three extractor calls of episode e have returned, in their order
Extracted(l, e) ==
    \E a, b, c \in CallsOf(l, e) :
        /\ a < b /\ b < c
        /\ l.trace[a].call = ExtractorCalls[1] /\ l.trace[a].ok
        /\ l.trace[b].call = ExtractorCalls[2] /\ l.trace[b].ok
        /\ l.trace[c].call = ExtractorCalls[3] /\ l.trace[c].ok

\* C27: within an episode the store is written only after entity extraction,
\* relationship extraction and summarization have returned in that order: a
\* step of an invocation that still waits for one of the three leaves the
\* store as it is, and a step that changes the store belongs to an episode
\* whose three extractor calls returned.  When a call of the episode does
\* fail, the invocation ends with the error, the failed call being its last.
C27_NoWriteBeforeExtraction ==
    [][LET l == inv[1]
           m == inv'[1]
       IN  /\ l.pc \in {"extractEntities", "extractRelationships", "generateSummary"}
                => nodes' = nodes /\ edges' = edges
           /\ (nodes' # nodes \/ edges' # edges) => Extracted(l, l.k)
           /\ (Len(m.trace) > Len(l.trace) /\ ~m.trace[Len(m.trace)].ok) =>
                /\ m.status = "error" /\ m.pc = "return"
                /\ m.trace[Len(m.trace)].call \in {"addNodes", "addEdges"}
                     => Extracted(l, l.k)]_vars

\* the nodes of the second episode were written, after its three extractor
\* calls
C27_Witness ==
    LET l == inv[1]
        t == l.trace
    IN  /\ l.k = 2
        /\ Len(t) >= 4
        /\ t[Len(t)] = [ep |-> 2, call |-> "addNodes", ok |-> TRUE,
                        ids |-> {l.nodes[i].id : i \in DOMAIN l.nodes}]
        /\ t[Len(t) - 1].call = "generateSummary" /\ t[Len(t) - 1].ep = 2
        /\ t[Len(t) - 2].call = "extractRelationships" /\ t[Len(t) - 2].ep = 2
        /\ t[Len(t) - 3].call = "extractEntities" /\ t[Len(t) - 3].ep = 2
        /\ \A i \in DOMAIN l.nodes : StoredNode(l.nodes[i].id)

\* C30: the result of a hybrid search holds no two entries with the same
\* identity and no entry without identity, whatever the two sub-searches
\* returned, also when the semantic sub-search fell back to keyword search.
C30_HybridResultsDistinct ==
    (ret.op = "search" /\ ret.searchType = "hybrid") =>
        /\ \A i, j \in 1..Len(ret.results) :
              ret.results[i].id = ret.results[j].id => i = j
        /\ \A i \in 1..Len(ret.results) : ret.results[i].id # NoId

\* the semantic sub-search fell back to keyword search, both sub-results list
\* one item twice between them and an item without identity, and the merged
\* result holds the item once
C30_Witness ==
    /\ ret.op = "search" /\ ret.searchType = "hybrid"
    /\ ~given.embedding
    /\ given.fallback.ok /\ given.keyword.ok
    /\ given.fallback.rows = given.keyword.rows
    /\ \E i, j \in 1..Len(KeywordResults) :
          KeywordResults[i].id = NoId /\ KeywordResults[j].id # NoId
    /\ Len(ret.results) = 1

\* the threshold a level name stands for: its level, INFO for another name
Threshold(name) ==
    CASE name = "debug" -> DEBUG
      [] name = "info" -> INFO
      [] name = "warn" -> WARN
      [] name = "error" -> ERROR
      [] OTHER -> INFO

\* C24: after createLogger(name) the logger's threshold is the level named
\* (INFO for an unknown name), and a message is emitted exactly when its
\* level is at or above that threshold.
C24_ThresholdIsLevelNamed ==
    (ret.op = "logger" /\ given.name # "none") =>
        /\ ret.instance
        /\ ret.logLevel = Threshold(given.name)
        /\ \A l \in LogLevel :
              /\ ret.logs[l] = "emitted" => l >= Threshold(given.name)
              /\ ret.logs[l] = "dropped" => l < Threshold(given.name)

\* after createLogger('debug') the threshold is INFO and a debug message was
\* dropped
C24_Witness ==
    /\ ret.op = "logger"
    /\ given.name = "debug"
    /\ ret.logLevel = INFO
    /\ ret.logs[DEBUG] = "dropped"
    /\ ret.logs[INFO] = "emitted"

CreatedIndexes == \E i \in DOMAIN ret.steps : ret.steps[i].step = "createIndexes"

StartupOrder == <<"loadConfig", "connect", "createIndexes", "serverConnect">>

ConnectFailed == \E i \in DOMAIN ret.steps : ret.steps[i] = Step("connect", FALSE)

\* C25: startup runs configuration load, store connection, index creation
\* and the attaching of the transport in this order, each step only after
\* the earlier ones succeeded; a tool call is served only after all four; if
\* the store connection fails, index creation is not attempted and the
\* process ends with the connection's error without serving.
C25_StartupOrdered ==
    ret.op = "run" =>
        /\ Len(ret.steps) <= Len(StartupOrder)
        /\ \A i \in DOMAIN ret.steps :
              /\ ret.steps[i].step = StartupOrder[i]
              /\ i < Len(ret.steps) => ret.steps[i].ok
        /\ ret.served > 0 =>
              /\ Len(ret.steps) = Len(StartupOrder)
              /\ \A i \in DOMAIN ret.steps : ret.steps[i].ok
        /\ ConnectFailed =>
              /\ ret.pc = "exited"
              /\ ret.error \in Causes
              /\ ~CreatedIndexes
              /\ ret.attempted = <<>>
              /\ ret.served = 0

\* the store connection failed after the configuration was loaded, and the
\* process has ended
C25_Witness ==
    /\ ret.op = "run"
    /\ ret.steps = <<Step("loadConfig", TRUE), Step("connect", FALSE)>>
    /\ ret.pc = "exited"
    /\ ret.error = "ServiceUnavailable"
    /\ Len(ret.connects) = 1

\* the identifiers of the graph elements that invocation c wrote as nodes
NodesWrittenBy(c) ==
    UNION {inv[c].trace[i].ids :
            i \in {j \in 1..Len(inv[c].trace) : inv[c].trace[j].call = "addNodes"}}

\* the identifiers of the relationships that invocation c created
EdgesWrittenBy(c) ==
    UNION {inv[c].trace[i].ids :
            i \in {j \in 1..Len(inv[c].trace) : inv[c].trace[j].call = "addEdges"}}

\* C26: with two addEpisodes invocations interleaving, every edge that an
\* invocation wrote joins two nodes that the same invocation wrote, and no
\* end of it is a node of the other invocation, also when both extracted
\* entities of the same name.
C26_NoCrossInvocationEdges ==
    \A c \in DOMAIN inv : \A e \in edges :
        e.id \in EdgesWrittenBy(c) =>
            /\ e.source \in NodesWrittenBy(c)
            /\ e.target \in NodesWrittenBy(c)
            /\ \A d \in DOMAIN inv \ {c} :
                    e.source \notin NodesWrittenBy(d) /\ e.target \notin NodesWrittenBy(d)

\* the second invocation has built its batch and not yet written it, the
\* first, which built its batch later, has written an edge, and a node of
\* the second has the name of an end of that edge
C26_Witness ==
    /\ DOMAIN inv = Invocations
    /\ inv[2].pc = "addNodes"
    /\ inv[1].nodes # <<>>
    /\ inv[2].nodes[1].id < inv[1].nodes[1].id
    /\ \E e \in edges, m \in nodes :
          /\ e.id \in EdgesWrittenBy(1)
          /\ m.elem \in {e.source, e.target}
          /\ m.elem \in NodesWrittenBy(1)
          /\ m.name = inv[2].nodes[1].name
====
